---- MODULE Spec2Model ----
(***************************************************************************)
(* State-machine model of the 3D model viewer's render-mode coordinator    *)
(* (ModelViewer in the single-canvas viewer with path tracing), of the UI  *)
(* handlers that drive it, and of the asynchronous HDRI loads.             *)
(*                                                                         *)
(* Time is discrete: Tick advances the clock by TimeStep milliseconds.     *)
(* Between two ticks any number of events, animation frames and expired    *)
(* timer callbacks may run, each one atomically (single-threaded event     *)
(* loop).                                                                  *)
(***************************************************************************)
EXTENDS Integers, Sequences, FiniteSets

\* ---------------------------------------------------------------- bounds
\* Milliseconds that pass in one Tick.
TimeStep == 150
\* Most timers pending at once (arming is blocked beyond this).
MaxTimers == 2
\* Value at which the path tracer's sample counter saturates in the model.
MaxSamples == 1
\* Most HDRI load requests in one run, the default load included.
MaxLoads == 2
\* Most model files picked in one run.
MaxModelLoads == 2
\* Most environment maps generated in one run.
MaxMaps == 3
\* Ticks the sine-wave animation is followed for.
MaxSineTicks == 2

\* ------------------------------------------------------ program constants
\* this.interactionDelay, milliseconds.
interactionDelay == 300
\* ViewerConfig.performance.hdriRotationDebounce, milliseconds.
hdriRotationDebounce == 300

\* Presets the HDRI selector offers (two of ViewerConfig.hdriPresets).
HDRIPresets == {"studio", "sunset"}

\* What a path-tracer resync has to cover: the scene graph with its camera
\* (transforms, lights, camera pose) and the environment.
Aspects == {"scene", "env"}

VARIABLES
    \* --- ModelViewer fields
    pathTracer,            \* TRUE when this.pathTracer has been constructed
    pathTracingEnabled,
    isInteracting,
    interactionTimeout,    \* "null" or "handle" (a timer id, live or stale)
    pmremEnvironment,
    sceneEnvironment,      \* this.scene.environment
    originalHDRITexture,
    currentHDRI,
    sunDirection,          \* rotation-coupled viewer: preset the direction came from
    hdriBackgroundVisible,
    currentModel,          \* TRUE when a model is loaded
    animationEnabled,
    rotationBeforeAnimation,  \* "null" or "saved"
    \* --- UI controller state
    toggleChecked,         \* checked state of #pathtracing-enabled
    isPathtracerLoaded,
    hdriRotationTimer,     \* "null" or "handle"
    \* --- browser and library state
    WebGLPathTracer,       \* TRUE when window.WebGLPathTracer is defined
    isWebGL2,              \* renderer.capabilities.isWebGL2
    timers,                \* pending setTimeout callbacks, in arming order
    dragging,              \* an orbit drag is in progress (between 'start' and 'end')
    samples,               \* pathTracer.samples
    hdriLoads,             \* presets requested from rgbeLoader, by load id
    hdriInFlight,          \* ids of the loads whose callback has not run yet
    \* --- observation of the run
    frame,                 \* what the last step drew: "none", "pathtraced", "raster", "fallback"
    enableResult,          \* what enablePathTracing returned in the last step: "none",
                           \* "true", "false", "throw"
    lastMutAge,            \* ms since the last content mutation made with path tracing on
    burstResyncs,          \* path-tracer resyncs since the current burst of mutations began
    ptStale,               \* parts of the scene changed since the path tracer last took them
    hdriNewest,            \* id of the newest load whose texture has arrived
    \* --- model container and model loads
    modelId,               \* request id of the model this.currentModel holds, 0 for none
    modelInFlight,         \* ids of the loader requests whose callback has not run yet
    modelReplaced,         \* by request id: the model that was loaded when loadModel ran
    containerScale,        \* modelContainer.scale (uniform), a quotient <<num, den>>
    containerPosition,     \* modelContainer.position, <<x, y, z>>
    containerRotation,     \* modelContainer.rotation about Y, in quarter turns
    \* --- HDRI rotation
    hdriRotation,          \* this.hdriRotation, in quarter turns
    environmentRotation,   \* scene.environmentRotation.y and scene.backgroundRotation.y
    rotInputAge,           \* ms since the last input on the rotation slider
    rotPending,            \* a rotation input has not been followed by its regeneration yet
    regens,                \* regenerations committed for the current burst of rotation inputs
    \* --- textures the viewer has created
    mapsMade,              \* environment maps generated so far
    currentMap,            \* serial of the map this.currentHDRI holds, 0 for none
    liveMaps,              \* serials of the generated maps not disposed
    liveSources,           \* load ids of the stored panorama clones not disposed
    \* --- sun light of the rotation-coupled viewer
    sunLightPosition,      \* this.sunLight.position, <<x, y, z>>
    sunLightTarget,        \* this.sunLight.target.position
    \* --- brightest-point analysis of the rotation-coupled viewer
    pixelBuffer,           \* the sampled panorama, [pixel -> <<r, g, b>>]
    brightestDirection,    \* the direction the last analysis returned, <<>> before
    \* --- animation
    savedRotation,         \* rotationBeforeAnimation.y, in quarter turns (0 while null)
    animationMode,         \* "undefined", "turntable" or "sine"
    sineTime,              \* this.sineTime, in animation ticks
    preAnimationRotation,  \* the rotation the container had when animation was last enabled
    lastAnimationCall,     \* the last call on the container: "none", "enable", "disable",
                           \* "mode", "transform", "frame" or "load"
    lastTransform,         \* the arguments of the last updateModelTransform, <<>> before
    \* --- materials of the loaded model, children of the model container
    materialMap,           \* mat.map of the model's material: "texture" or "null"
    originalMaterials,     \* the map stored for that material, "unset" before
    currentShaderPreset,
    containerChildren,     \* request ids of the models attached to modelContainer
    \* --- tone mapping of the dual-canvas viewer
    hdriIntensity,         \* this.hdriIntensity
    toneMapping,           \* renderer.toneMapping: "NoToneMapping" or "ACESFilmic"
    toneMappingExposure,   \* renderer.toneMappingExposure
    \* --- background video
    backgroundVideo,       \* this.backgroundVideo: "null" or "video"
    backgroundVideoTexture,  \* TRUE while the cached VideoTexture exists
    videoPaused,           \* paused flag of the element last handed to the viewer
    videoSrc               \* its src: "none" before any, "set" or "" once released

vars == <<pathTracer, pathTracingEnabled, isInteracting, interactionTimeout,
          pmremEnvironment, sceneEnvironment, originalHDRITexture, currentHDRI,
          sunDirection, hdriBackgroundVisible, currentModel, animationEnabled,
          rotationBeforeAnimation, toggleChecked, isPathtracerLoaded,
          hdriRotationTimer, WebGLPathTracer, isWebGL2, timers, dragging, samples,
          hdriLoads, hdriInFlight, frame, enableResult, lastMutAge,
          burstResyncs, ptStale, hdriNewest, modelId, modelInFlight, modelReplaced,
          containerScale, containerPosition, containerRotation, hdriRotation,
          environmentRotation, rotInputAge, rotPending, regens, mapsMade, currentMap,
          liveMaps, liveSources, sunLightPosition, sunLightTarget,
          pixelBuffer, brightestDirection, savedRotation, animationMode, sineTime,
          preAnimationRotation, lastAnimationCall, lastTransform, materialMap,
          originalMaterials, currentShaderPreset, containerChildren, hdriIntensity,
          toneMapping, toneMappingExposure, backgroundVideo, backgroundVideoTexture,
          videoPaused, videoSrc>>

\* Groups used in UNCHANGED clauses.
coordVars == <<isInteracting, interactionTimeout, timers>>
envVars   == <<pmremEnvironment, sceneEnvironment, originalHDRITexture, currentHDRI,
               sunDirection, hdriBackgroundVisible>>
loadVars  == <<hdriLoads, hdriInFlight, hdriNewest>>
animVars  == <<currentModel, animationEnabled, rotationBeforeAnimation>>
libVars   == <<WebGLPathTracer, isWebGL2, isPathtracerLoaded>>
ptVars    == <<pathTracer, pathTracingEnabled, toggleChecked>>
modelVars == <<modelId, modelInFlight, modelReplaced>>
transformVars == <<containerScale, containerPosition, containerRotation>>
\* Everything the handlers of the render-mode coordinator leave alone.
rotVars == <<hdriRotation, environmentRotation>>
rotObs == <<rotInputAge, rotPending, regens>>
texVars == <<mapsMade, currentMap, liveMaps, liveSources>>
hdriVars == <<rotVars, texVars>>
sunVars == <<sunLightPosition, sunLightTarget>>
analysisVars == <<pixelBuffer, brightestDirection>>
animationVars == <<savedRotation, animationMode, sineTime>>
animObs == <<preAnimationRotation, lastAnimationCall, lastTransform>>
partsVars == <<materialMap, originalMaterials, currentShaderPreset, containerChildren>>
toneVars == <<hdriIntensity, toneMapping, toneMappingExposure>>
videoVars == <<backgroundVideo, backgroundVideoTexture, videoPaused, videoSrc>>
asideVars == <<analysisVars, animationVars, animObs, partsVars, toneVars, videoVars>>
sceneVars == <<modelVars, transformVars, hdriVars, rotObs, sunVars, asideVars>>

Min(a, b) == IF a < b THEN a ELSE b
Max(a, b) == IF a > b THEN a ELSE b

\* ------------------------------------------------------------- textures
NullTexture == [kind |-> "null", src |-> 0]
\* The equirectangular clone stored for load id.
Equirect(id) == [kind |-> "equirect", src |-> id]
\* pmremGenerator.fromEquirectangular(texture).texture
FromEquirectangular(tex) == [kind |-> "pmrem", src |-> tex.src]

\* --------------------------------------------------------------- timers
\* clearTimeout(h): the timer whose id variable h holds is removed, if it is
\* still pending.
ClearTimeout(ts, h) == SelectSeq(ts, LAMBDA t : t.ref # h)

\* Variable h is overwritten: a timer it referred to stays pending, unreferenced.
Forget(ts, h) ==
    [i \in DOMAIN ts |-> IF ts[i].ref = h THEN [ts[i] EXCEPT !.ref = "none"] ELSE ts[i]]

\* h = setTimeout(cb, delay)
SetTimeout(ts, cb, delay, h) ==
    Append(Forget(ts, h), [cb |-> cb, remaining |-> delay, ref |-> h])

\* Index of the timer the event loop runs next: the first expired one.
Expired(ts) == {i \in DOMAIN ts : ts[i].remaining = 0}
NextExpired(ts) == CHOOSE i \in Expired(ts) : \A j \in Expired(ts) : i <= j
RemoveAt(ts, i) == [j \in 1..(Len(ts) - 1) |-> IF j < i THEN ts[j] ELSE ts[j + 1]]

\* ---------------------------------------------------- interaction block
\* The condition every handler tests before it touches the coordinator.
PathTracingActive == pathTracingEnabled /\ pathTracer

\* "if (this.interactionTimeout) clearTimeout(...); this.interactionTimeout =
\* setTimeout(cb, this.interactionDelay)" applied to the timer list ts.
ClearAndArm(ts, cb) ==
    SetTimeout(IF interactionTimeout # "null" THEN ClearTimeout(ts, "interactionTimeout") ELSE ts,
               cb, interactionDelay, "interactionTimeout")

\* The block that ends updateSunLightPosition, updateModelTransform,
\* updateHDRISettings and the animation branch of animate(): the timer list it
\* leaves, starting from ts, with callback cb armed ...
InteractionTimers(ts, cb) == IF PathTracingActive THEN ClearAndArm(ts, cb) ELSE ts

\* ... and the two fields it writes.
TriggerInteraction ==
    /\ isInteracting' = (PathTracingActive \/ isInteracting)
    /\ interactionTimeout' = IF PathTracingActive THEN "handle" ELSE interactionTimeout

\* The model keeps at most MaxTimers timers pending.
Fits(ts) == Len(ts) <= MaxTimers

\* No handler returned a value or drew a frame in this step.
Quiet == /\ frame' = "none"
         /\ enableResult' = "none"

\* ---------------------------------------------------------- sample grid
\* The sample grid, columns by rows; a column is a quarter turn of longitude,
\* a row a quarter turn of latitude.
SampleColumns == 0..3
SampleRows == 0..1
SamplePixels == SampleColumns \X SampleRows

\* ----------------------------------------------------------------- Init
Init ==
    /\ pathTracer = FALSE
    /\ pathTracingEnabled = FALSE
    /\ isInteracting = FALSE
    /\ interactionTimeout = "null"
    /\ pmremEnvironment = NullTexture
    /\ sceneEnvironment = NullTexture
    /\ originalHDRITexture = NullTexture
    /\ currentHDRI = NullTexture
    /\ sunDirection = "default"
    /\ hdriBackgroundVisible = FALSE
    /\ currentModel = FALSE
    /\ animationEnabled = FALSE
    /\ rotationBeforeAnimation = "null"
    /\ toggleChecked = FALSE
    /\ WebGLPathTracer \in BOOLEAN
    /\ isPathtracerLoaded = WebGLPathTracer
    /\ hdriRotationTimer = "null"
    /\ isWebGL2 \in BOOLEAN
    /\ timers = <<>>
    /\ dragging = FALSE
    /\ samples = 0
    /\ ptStale = {}
    /\ hdriLoads = <<"studio">>
    /\ hdriInFlight = {1}
    /\ frame = "none"
    /\ enableResult = "none"
    /\ lastMutAge = interactionDelay
    /\ burstResyncs = 0
    /\ hdriNewest = 0
    /\ modelId = 0
    /\ modelInFlight = {}
    /\ modelReplaced = <<>>
    /\ containerScale = <<1, 1>>
    /\ containerPosition = <<0, 0, 0>>
    /\ containerRotation = 0
    /\ hdriRotation = 0
    /\ environmentRotation = 0
    /\ rotInputAge = hdriRotationDebounce
    /\ rotPending = FALSE
    /\ regens = 0
    /\ mapsMade = 0
    /\ currentMap = 0
    /\ liveMaps = {}
    /\ liveSources = {}
    /\ sunLightPosition = <<5, 10, 5>>
    /\ sunLightTarget = <<0, 0, 0>>
    /\ pixelBuffer = [p \in SamplePixels |-> <<0, 0, 0>>]
    /\ brightestDirection = <<>>
    /\ savedRotation = 0
    /\ animationMode = "undefined"
    /\ sineTime = 0
    /\ preAnimationRotation = 0
    /\ lastAnimationCall = "none"
    /\ lastTransform = <<>>
    /\ materialMap = "null"
    /\ originalMaterials = "unset"
    /\ currentShaderPreset = "custom"
    /\ containerChildren = {}
    /\ hdriIntensity = 1
    /\ toneMapping = "NoToneMapping"
    /\ toneMappingExposure = 1
    /\ backgroundVideo = "null"
    /\ backgroundVideoTexture = FALSE
    /\ videoPaused = TRUE
    /\ videoSrc = "none"


\* ------------------------------------------------------ library loading
\* The path-tracer module finishes loading and defines window.WebGLPathTracer.
LibraryLoaded ==
    /\ ~WebGLPathTracer
    /\ WebGLPathTracer' = TRUE
    /\ Quiet
    /\ UNCHANGED <<ptVars, coordVars, envVars, loadVars, animVars, isWebGL2,
                   isPathtracerLoaded, hdriRotationTimer, dragging, samples>>

\* 'pathtracerReady' listener of the UI controller.
PathtracerReady ==
    /\ ~isPathtracerLoaded
    /\ isPathtracerLoaded' = TRUE
    /\ Quiet
    /\ UNCHANGED <<ptVars, coordVars, envVars, loadVars, animVars, isWebGL2,
                   WebGLPathTracer, hdriRotationTimer, dragging, samples>>

\* --------------------------------------------------- enablePathTracing
\* Where enablePathTracing stops. ctorThrows, setSceneThrows: whether the
\* library's constructor and setScene throw in this call.
EnableOutcome(ctorThrows, setSceneThrows) ==
    IF ~WebGLPathTracer THEN "noLibrary"
    ELSE IF ~isWebGL2 THEN "noWebGL2"
    ELSE IF ~pathTracer /\ ctorThrows THEN "constructorThrew"
    ELSE IF setSceneThrows THEN "setSceneThrew"
    ELSE "enabled"

\* Outcomes that return before the path tracer exists.
Rejected == {"noLibrary", "noWebGL2", "constructorThrew"}

\* Mutant: the flag is raised before the capability checks have passed.
EnabledAfterUnchecked(out) == TRUE

\* this.pathTracingEnabled after the call.
EnabledAfter(out) == IF out = "enabled" THEN TRUE ELSE pathTracingEnabled

\* What the call hands back to its caller.
EnableReturn(out) ==
    IF out \in Rejected THEN "false"
    ELSE IF out = "setSceneThrew" THEN "throw"
    ELSE "true"

EnablePathTracing(out) ==
    /\ enableResult' = EnableReturn(out)
    /\ pathTracer' = (pathTracer \/ out \notin Rejected)
    /\ pathTracingEnabled' = EnabledAfter(out)
    \* setPathTracingQuality resets the tracer; setScene restarts it
    /\ samples' = IF out \in Rejected THEN samples ELSE 0
    /\ pmremEnvironment' = IF out \in Rejected THEN pmremEnvironment ELSE sceneEnvironment
    /\ sceneEnvironment' = IF out = "enabled" /\ originalHDRITexture # NullTexture
                           THEN originalHDRITexture
                           ELSE sceneEnvironment

\* 'change' listener of #pathtracing-enabled, box being checked.
PathTracingToggleOn(ctorThrows, setSceneThrows) ==
    /\ ~toggleChecked
    /\ IF ~isPathtracerLoaded /\ ~WebGLPathTracer
       THEN /\ toggleChecked' = FALSE
            /\ enableResult' = "none"
            /\ UNCHANGED <<pathTracer, pathTracingEnabled, samples, pmremEnvironment,
                           sceneEnvironment>>
       ELSE LET out == EnableOutcome(ctorThrows, setSceneThrows) IN
            /\ EnablePathTracing(out)
            \* "e.target.checked = false" runs only when the call returned false
            /\ toggleChecked' = (EnableReturn(out) # "false")
    /\ frame' = "none"
    /\ UNCHANGED <<coordVars, originalHDRITexture, currentHDRI, sunDirection,
                   hdriBackgroundVisible, loadVars, animVars, libVars,
                   hdriRotationTimer, dragging>>

\* scene.environment after disablePathTracing.
RestoredEnvironment ==
    IF pmremEnvironment # NullTexture THEN pmremEnvironment
    ELSE IF currentHDRI # NullTexture THEN currentHDRI
    ELSE sceneEnvironment

\* 'change' listener of #pathtracing-enabled, box being unchecked:
\* disablePathTracing.
PathTracingToggleOff ==
    /\ toggleChecked
    /\ toggleChecked' = FALSE
    /\ pathTracingEnabled' = FALSE
    /\ sceneEnvironment' = RestoredEnvironment
    /\ Quiet
    /\ UNCHANGED <<pathTracer, coordVars, pmremEnvironment, originalHDRITexture,
                   currentHDRI, sunDirection, hdriBackgroundVisible, loadVars,
                   animVars, libVars, hdriRotationTimer, dragging, samples>>

\* 'click' listener of #pathtracing-reset-btn: resetPathTracing.
ResetPathTracing ==
    /\ pathTracer
    /\ samples' = 0
    /\ Quiet
    /\ UNCHANGED <<ptVars, coordVars, envVars, loadVars, animVars, libVars,
                   hdriRotationTimer, dragging>>

\* --------------------------------------------------------- orbit controls
\* orbitControls 'start' listener; the pointer goes down on the canvas.
OrbitStart ==
    /\ ~dragging
    /\ dragging' = TRUE
    /\ IF PathTracingActive
       THEN /\ isInteracting' = TRUE
            /\ timers' = IF interactionTimeout # "null"
                         THEN ClearTimeout(timers, "interactionTimeout")
                         ELSE timers
            /\ interactionTimeout' = "null"
       ELSE UNCHANGED coordVars
    /\ Quiet
    /\ UNCHANGED <<ptVars, envVars, loadVars, animVars, libVars, hdriRotationTimer,
                   samples>>

\* The timer list after the 'end' listener: the new timer is armed and the
\* handle overwritten; a timer the handle referred to is not cleared.
OrbitEndTimers(ts) ==
    IF PathTracingActive
    THEN SetTimeout(ts, "setScene", interactionDelay, "interactionTimeout")
    ELSE ts

\* orbitControls 'end' listener; the pointer is released.
OrbitEnd ==
    /\ dragging
    /\ Fits(OrbitEndTimers(timers))
    /\ dragging' = FALSE
    /\ timers' = OrbitEndTimers(timers)
    /\ interactionTimeout' = IF PathTracingActive THEN "handle" ELSE interactionTimeout
    /\ UNCHANGED isInteracting
    /\ Quiet
    /\ UNCHANGED <<ptVars, envVars, loadVars, animVars, libVars, hdriRotationTimer,
                   samples>>

\* ------------------------------------------------------- content edits
\* Any sun control of the UI (toggle, intensity, azimuth, elevation, colour,
\* shadow softness, shadow intensity): updateSunLightPosition.
UpdateSunLightPosition ==
    /\ Fits(InteractionTimers(timers, "setScene"))
    /\ timers' = InteractionTimers(timers, "setScene")
    /\ TriggerInteraction
    /\ Quiet
    /\ UNCHANGED <<ptVars, envVars, loadVars, animVars, libVars, hdriRotationTimer,
                   dragging, samples>>

\* Any transform slider: updateModelTransform.
UpdateModelTransform ==
    /\ Fits(InteractionTimers(timers, "setScene"))
    /\ timers' = InteractionTimers(timers, "setScene")
    /\ TriggerInteraction
    /\ Quiet
    /\ UNCHANGED <<ptVars, envVars, loadVars, animVars, libVars, hdriRotationTimer,
                   dragging, samples>>

\* Mutant: the map is rebuilt in every call, whatever forceRegenerate says.
RegeneratesAlways(forceRegenerate) == originalHDRITexture # NullTexture

\* generateRotatedEnvironment(this.originalHDRITexture, ...), the part of
\* updateHDRISettings that runs when forceRegenerate is set and a panorama is stored.
Regenerates(forceRegenerate) == forceRegenerate /\ originalHDRITexture # NullTexture

\* updateHDRISettings(forceRegenerate) on timer list ts: everything but the
\* timer list itself, which is InteractionTimers(ts, "updateEnvironment").
UpdateHDRISettings(forceRegenerate) ==
    /\ currentHDRI' = IF Regenerates(forceRegenerate)
                      THEN FromEquirectangular(originalHDRITexture)
                      ELSE currentHDRI
    /\ sceneEnvironment' = IF Regenerates(forceRegenerate)
                           THEN FromEquirectangular(originalHDRITexture)
                           ELSE sceneEnvironment
    /\ TriggerInteraction
    /\ UNCHANGED <<pmremEnvironment, originalHDRITexture, sunDirection,
                   hdriBackgroundVisible>>

\* 'input' listener of #hdri-intensity.
HDRIIntensityInput ==
    /\ Fits(InteractionTimers(timers, "updateEnvironment"))
    /\ UpdateHDRISettings(FALSE)
    /\ timers' = InteractionTimers(timers, "updateEnvironment")
    /\ Quiet
    /\ UNCHANGED <<ptVars, loadVars, animVars, libVars, hdriRotationTimer, dragging,
                   samples>>

\* Mutant: the debounce arms its timer without clearing the pending one.
DebounceWithoutClear(ts) ==
    SetTimeout(ts, "regenerate", hdriRotationDebounce, "hdriRotationTimer")

\* The debounce of the rotation slider on timer list ts.
DebounceRegeneration(ts) ==
    SetTimeout(IF hdriRotationTimer # "null" THEN ClearTimeout(ts, "hdriRotationTimer") ELSE ts,
               "regenerate", hdriRotationDebounce, "hdriRotationTimer")

\* 'input' listener of #hdri-rotation.
HDRIRotationInput ==
    /\ Fits(DebounceRegeneration(InteractionTimers(timers, "updateEnvironment")))
    /\ UpdateHDRISettings(FALSE)
    /\ timers' = DebounceRegeneration(InteractionTimers(timers, "updateEnvironment"))
    /\ hdriRotationTimer' = "handle"
    /\ Quiet
    /\ UNCHANGED <<ptVars, loadVars, animVars, libVars, dragging, samples>>

\* ------------------------------------------------------ timer callbacks
\* Settle callback armed by the orbit 'end' listener, updateSunLightPosition,
\* updateModelTransform or animate().
SettleSetScene ==
    /\ Expired(timers) # {}
    /\ LET i == NextExpired(timers) IN
       /\ timers[i].cb = "setScene"
       /\ timers' = RemoveAt(timers, i)
    /\ isInteracting' = FALSE
    /\ samples' = 0
    /\ Quiet
    /\ UNCHANGED <<ptVars, interactionTimeout, envVars, loadVars, animVars, libVars,
                   hdriRotationTimer, dragging>>

\* Settle callback armed by updateHDRISettings.
SettleUpdateEnvironment ==
    /\ Expired(timers) # {}
    /\ LET i == NextExpired(timers) IN
       /\ timers[i].cb = "updateEnvironment"
       /\ timers' = RemoveAt(timers, i)
    /\ isInteracting' = FALSE
    /\ samples' = 0
    /\ Quiet
    /\ UNCHANGED <<ptVars, interactionTimeout, envVars, loadVars, animVars, libVars,
                   hdriRotationTimer, dragging>>

\* Debounce callback of the rotation slider: updateHDRISettings(true).
HDRIRotationCommit ==
    /\ Expired(timers) # {}
    /\ LET i == NextExpired(timers) IN
       /\ timers[i].cb = "regenerate"
       /\ Fits(InteractionTimers(RemoveAt(timers, i), "updateEnvironment"))
       /\ timers' = InteractionTimers(RemoveAt(timers, i), "updateEnvironment")
    /\ UpdateHDRISettings(TRUE)
    /\ Quiet
    /\ UNCHANGED <<ptVars, loadVars, animVars, libVars, hdriRotationTimer, dragging,
                   samples>>

\* TimeStep milliseconds pass. Expired callbacks run before time moves on.
Tick ==
    /\ Expired(timers) = {}
    /\ timers' = [i \in DOMAIN timers |->
                    [timers[i] EXCEPT !.remaining = Max(0, timers[i].remaining - TimeStep)]]
    /\ Quiet
    /\ UNCHANGED <<ptVars, isInteracting, interactionTimeout, envVars, loadVars,
                   animVars, libVars, hdriRotationTimer, dragging, samples>>

\* ------------------------------------------------ handlers that only edit
\* 'change' listener of #shadow-quality: new shadow-map size, cached map dropped.
ShadowQualityChange ==
    /\ Quiet
    /\ UNCHANGED <<ptVars, coordVars, envVars, loadVars, animVars, libVars,
                   hdriRotationTimer, dragging, samples>>

\* 'change' listener of #hdri-show-bg: flag, then updateCanvasBackground.
HDRIShowBackground ==
    /\ hdriBackgroundVisible' = ~hdriBackgroundVisible
    /\ Quiet
    /\ UNCHANGED <<ptVars, coordVars, pmremEnvironment, sceneEnvironment,
                   originalHDRITexture, currentHDRI, sunDirection, loadVars, animVars,
                   libVars, hdriRotationTimer, dragging, samples>>

\* Canvas size inputs and preset buttons: resizeCanvas.
ResizeCanvas ==
    /\ Quiet
    /\ UNCHANGED <<ptVars, coordVars, envVars, loadVars, animVars, libVars,
                   hdriRotationTimer, dragging, samples>>

\* ------------------------------------------------------------ HDRI loads
\* 'change' listener of #hdri-preset: loadHDRI(presetName) starts a load.
LoadHDRI(presetName) ==
    /\ Len(hdriLoads) < MaxLoads
    /\ hdriLoads' = Append(hdriLoads, presetName)
    /\ hdriInFlight' = hdriInFlight \cup {Len(hdriLoads) + 1}
    /\ Quiet
    /\ UNCHANGED <<ptVars, coordVars, envVars, animVars, libVars, hdriRotationTimer,
                   dragging, samples, hdriNewest>>

\* Whether the success callback of load id applies its texture. The callback
\* holds no request token: it always does.
AppliesTexture(id) == TRUE

\* Success callback of rgbeLoader.load for load id.
HDRILoaded(id) ==
    /\ id \in hdriInFlight
    /\ hdriInFlight' = hdriInFlight \ {id}
    /\ hdriNewest' = Max(hdriNewest, id)
    /\ IF AppliesTexture(id)
       THEN /\ originalHDRITexture' = Equirect(id)
            \* rotation-coupled viewer: calibrated direction of the preset
            /\ sunDirection' = hdriLoads[id]
            \* generateRotatedEnvironment(texture, ...)
            /\ currentHDRI' = FromEquirectangular(Equirect(id))
            /\ sceneEnvironment' = FromEquirectangular(Equirect(id))
            \* pathTracer.reset()
            /\ samples' = IF PathTracingActive THEN 0 ELSE samples
       ELSE UNCHANGED <<originalHDRITexture, sunDirection, currentHDRI,
                        sceneEnvironment, samples>>
    /\ Quiet
    /\ UNCHANGED <<ptVars, coordVars, pmremEnvironment, hdriBackgroundVisible,
                   hdriLoads, animVars, libVars, hdriRotationTimer, dragging>>

\* Error callback of rgbeLoader.load for load id: logs.
HDRILoadError(id) ==
    /\ id \in hdriInFlight
    /\ hdriInFlight' = hdriInFlight \ {id}
    /\ Quiet
    /\ UNCHANGED <<ptVars, coordVars, envVars, hdriLoads, hdriNewest, animVars,
                   libVars, hdriRotationTimer, dragging, samples>>

\* ------------------------------------------------------ model, animation
\* Success callback of a model load: currentModel set, processLoadedModel.
ModelLoaded ==
    /\ ~currentModel
    /\ currentModel' = TRUE
    /\ Quiet
    /\ UNCHANGED <<ptVars, coordVars, envVars, loadVars, animationEnabled,
                   rotationBeforeAnimation, libVars, hdriRotationTimer, dragging,
                   samples>>

\* clearModel with a model loaded.
ClearModel ==
    /\ currentModel
    /\ currentModel' = FALSE
    /\ Quiet
    /\ UNCHANGED <<ptVars, coordVars, envVars, loadVars, animationEnabled,
                   rotationBeforeAnimation, libVars, hdriRotationTimer, dragging,
                   samples>>

\* setAnimationEnabled(enabled): the rotation is saved when animation starts
\* and restored, and the snapshot dropped, when it stops.
SetAnimationEnabled(enabled) ==
    /\ animationEnabled' = enabled
    /\ rotationBeforeAnimation' =
          IF enabled /\ ~animationEnabled THEN "saved"
          ELSE IF ~enabled /\ animationEnabled THEN "null"
          ELSE rotationBeforeAnimation
    /\ Quiet
    /\ UNCHANGED <<ptVars, coordVars, envVars, loadVars, currentModel, libVars,
                   hdriRotationTimer, dragging, samples>>

\* ------------------------------------------------------- animation frame
\* sceneChanged of animate(): the turntable (default speed non-zero) or the
\* sine wave turned the model container in this frame.
SceneChanged == animationEnabled /\ currentModel /\ rotationBeforeAnimation # "null"

\* Mutant: the renderer ignores the interaction flag.
UsesPathTracerAlways(enabled, tracer, interacting) == enabled /\ tracer

\* The test at the head of render().
UsesPathTracer(enabled, tracer, interacting) == enabled /\ tracer /\ ~interacting

\* What render() draws. sampleThrows: pathTracer.renderSample() throws.
Rendered(enabled, tracer, interacting, sampleThrows) ==
    IF UsesPathTracer(enabled, tracer, interacting)
    THEN IF sampleThrows THEN "fallback" ELSE "pathtraced"
    ELSE "raster"

\* requestAnimationFrame callback animate(): animation step, interaction
\* block, render().
AnimateFrame(sampleThrows) ==
    LET arms    == PathTracingActive /\ SceneChanged
        ts      == IF arms THEN ClearAndArm(timers, "setScene") ELSE timers
    IN
    /\ Fits(ts)
    /\ timers' = ts
    /\ isInteracting' = (arms \/ isInteracting)
    /\ interactionTimeout' = IF arms THEN "handle" ELSE interactionTimeout
    /\ frame' = Rendered(pathTracingEnabled, pathTracer, isInteracting', sampleThrows)
    /\ samples' = IF frame' = "pathtraced" THEN Min(samples + 1, MaxSamples) ELSE samples
    /\ enableResult' = "none"
    /\ UNCHANGED <<ptVars, envVars, loadVars, animVars, libVars, hdriRotationTimer,
                   dragging>>

\* ----------------------------------------------------------- model loads
\* File extensions a user can pick: the three the viewer names and one other.
Extensions == {"glb", "gltf", "fbx", "txt"}

\* Extensions for which loadModel reaches a loader's load call: .glb through
\* loadGLTF, .fbx through loadFBX; loadGLTF returns early on .gltf.
ReachesLoader(ext) == ext \in {"glb", "fbx"}

\* Largest bounding-box dimensions of the models that can arrive; 0 is a model
\* whose box has no extent on any axis.
MaxDims == {0, 1, 2}

\* ViewerConfig.model.targetSize
targetSize == 2

\* The quotient a / b as JavaScript computes it for a > 0: <<a, 0>> is Infinity.
Quotient(a, b) == <<a, b>>
IsFinite(q) == q[2] # 0

\* autoScaleModel: the scale handed to modelContainer.scale.setScalar for a
\* model whose largest dimension is maxDim.
AutoScaleModel(maxDim) == Quotient(targetSize, maxDim)

\* The program state that model loads and transforms leave alone.
viewerVars == <<ptVars, coordVars, envVars, loadVars, libVars, hdriRotationTimer,
                dragging, samples>>

\* 'change' listener of the model file input: loadModel(file). clearModel runs
\* before the extension is looked at.
LoadModel(ext) ==
    /\ Len(modelReplaced) < MaxModelLoads
    /\ modelReplaced' = Append(modelReplaced, modelId)
    /\ currentModel' = FALSE
    /\ modelId' = 0
    /\ modelInFlight' = IF ReachesLoader(ext)
                        THEN modelInFlight \cup {Len(modelReplaced) + 1}
                        ELSE modelInFlight
    /\ Quiet
    /\ UNCHANGED <<viewerVars, animationEnabled, rotationBeforeAnimation,
                   transformVars, hdriVars>>

\* Success callback of gltfLoader.load / fbxLoader.load for request id:
\* currentModel set, then processLoadedModel (add, centre, auto-scale).
ModelLoadCompleted(id, maxDim) ==
    /\ id \in modelInFlight
    /\ modelInFlight' = modelInFlight \ {id}
    /\ currentModel' = TRUE
    /\ modelId' = id
    /\ containerScale' = AutoScaleModel(maxDim)
    /\ Quiet
    /\ UNCHANGED <<viewerVars, animationEnabled, rotationBeforeAnimation,
                   modelReplaced, containerPosition, containerRotation, hdriVars>>

\* Error callback of gltfLoader.load / fbxLoader.load for request id: logs and
\* alerts.
ModelLoadFailed(id) ==
    /\ id \in modelInFlight
    /\ modelInFlight' = modelInFlight \ {id}
    /\ Quiet
    /\ UNCHANGED <<viewerVars, animVars, modelId, modelReplaced, transformVars,
                   hdriVars>>

\* 'click' listener of the model remove button: clearModel.
RemoveModel ==
    /\ ClearModel
    /\ modelId' = 0
    /\ UNCHANGED <<modelInFlight, modelReplaced, transformVars, hdriVars>>

\* ---------------------------------------------------------- HDRI rotation
\* Values of the rotation slider: quarter turns, 0 to 360 degrees.
Rotations == 0..4

\* Mutant: each call turns the environment further by this.hdriRotation.
LiveRotationAccumulated == environmentRotation' = environmentRotation + hdriRotation'

\* "scene.environmentRotation.set(0, rotationRadians, 0)" and the same for
\* backgroundRotation, at the head of updateHDRISettings and in
\* generateRotatedEnvironment: the live rotation follows this.hdriRotation.
LiveRotation == environmentRotation' = hdriRotation'

\* generateRotatedEnvironment, the textures: the map in currentHDRI is disposed
\* and a new one generated and stored.
GenerateRotatedEnvironment ==
    /\ mapsMade < MaxMaps
    /\ mapsMade' = mapsMade + 1
    /\ currentMap' = mapsMade + 1
    /\ liveMaps' = (liveMaps \ {currentMap}) \cup {mapsMade + 1}

\* The textures of updateHDRISettings(forceRegenerate).
SettingsTextures(forceRegenerate) ==
    /\ IF Regenerates(forceRegenerate)
       THEN GenerateRotatedEnvironment
       ELSE UNCHANGED <<mapsMade, currentMap, liveMaps>>
    /\ UNCHANGED liveSources

\* 'input' listener of #hdri-rotation with slider value r.
RotationInput(r) ==
    /\ HDRIRotationInput
    /\ hdriRotation' = r
    /\ LiveRotation
    /\ SettingsTextures(FALSE)

\* Debounce callback of the rotation slider, with the rotation and the
\* textures of updateHDRISettings(true).
RotationCommit ==
    /\ HDRIRotationCommit
    /\ UNCHANGED hdriRotation
    /\ LiveRotation
    /\ SettingsTextures(TRUE)

\* 'input' listener of #hdri-intensity, with the rotation and the textures of
\* updateHDRISettings().
IntensityInput ==
    /\ HDRIIntensityInput
    /\ UNCHANGED hdriRotation
    /\ LiveRotation
    /\ SettingsTextures(FALSE)

\* Mutant: the stored clone is replaced without being disposed.
StoreWithoutDispose(live, id) == live \cup {id}

\* The stored clones left undisposed when the clone of load id replaces the
\* one in originalHDRITexture.
StoreSource(live, id) ==
    (IF originalHDRITexture # NullTexture THEN live \ {originalHDRITexture.src} ELSE live)
       \cup {id}

\* Success callback of an HDRI load, with the rotation and the textures: the
\* stored clone is disposed and replaced, then generateRotatedEnvironment.
PanoramaLoaded(id) ==
    /\ HDRILoaded(id)
    /\ UNCHANGED hdriRotation
    /\ LiveRotation
    /\ liveSources' = StoreSource(liveSources, id)
    /\ GenerateRotatedEnvironment

\* Observers of the rotation slider: an input opens or continues a burst ...
NoteRotationInput ==
    /\ rotInputAge' = 0
    /\ rotPending' = TRUE
    /\ regens' = 0
\* ... the debounce callback closes it, regenerating when a panorama is stored ...
NoteRotationCommit ==
    /\ rotPending' = FALSE
    /\ regens' = IF Regenerates(TRUE) THEN Min(regens + 1, 2) ELSE regens
    /\ UNCHANGED rotInputAge
\* ... and time passes.
NoteRotationTime ==
    /\ rotInputAge' = Min(hdriRotationDebounce, rotInputAge + TimeStep)
    /\ UNCHANGED <<rotPending, regens>>

\* ------------------------------------- sun light, rotation-coupled viewer
\* ViewerConfig.lighting.sunDistance
sunDistance == 20

\* ViewerConfig.hdriSunPositions[preset].direction, and the constructor's
\* default, in whole units (the calibrated directions lie near the horizon,
\* towards +z).
CalibratedDirection(preset) ==
    CASE preset = "studio" -> <<1, 0, 4>>
      [] preset = "sunset" -> <<3, 0, 5>>
      [] OTHER -> <<0, 1, 0>>

\* Cosine and sine of q quarter turns.
CosQ(q) == CASE q % 4 = 0 -> 1 [] q % 4 = 1 -> 0 [] q % 4 = 2 -> -1 [] OTHER -> 0
SinQ(q) == CASE q % 4 = 0 -> 0 [] q % 4 = 1 -> 1 [] q % 4 = 2 -> 0 [] OTHER -> -1

\* The rotation the shaders apply for an Euler angle of q quarter turns about
\* Y: the cosine and sine that make up its matrix.
ShadingRotation(q) == <<CosQ(q), SinQ(q)>>

\* Vector3.applyAxisAngle((0, 1, 0), q quarter turns)
ApplyAxisAngleY(v, q) ==
    <<v[1] * CosQ(q) + v[3] * SinQ(q), v[2], v[3] * CosQ(q) - v[1] * SinQ(q)>>

MultiplyScalar(v, k) == <<v[1] * k, v[2] * k, v[3] * k>>

\* Mutant: the sun is placed along the base direction, the rotation ignored.
SunPositionUnrotated(direction, rotation) == MultiplyScalar(direction, sunDistance)

\* The position updateSunLightPosition gives the sun light.
SunPosition(direction, rotation) ==
    MultiplyScalar(ApplyAxisAngleY(direction, rotation), sunDistance)

\* updateSunLightPosition of the rotation-coupled viewer, run at the end of a
\* handler: it reads the direction and rotation the handler leaves.
UpdateSunLight ==
    /\ sunLightPosition' = SunPosition(CalibratedDirection(sunDirection'), hdriRotation')
    /\ sunLightTarget' = <<0, 0, 0>>

\* ------------------------------ brightest point, rotation-coupled viewer
\* The values a sampled pixel takes: black, white, green.
PixelValues == {<<0, 0, 0>>, <<1, 1, 1>>, <<0, 1, 0>>}
\* The sampled images: all black but for at most two pixels.
Images ==
    {img \in [SamplePixels -> PixelValues] :
        Cardinality({p \in SamplePixels : img[p] # <<0, 0, 0>>}) <= 2}

\* Rec. 709 luminance, in ten-thousandths.
Luminance(rgb) == 2126 * rgb[1] + 7152 * rgb[2] + 722 * rgb[3]

\* equirectUVToDirection, u in quarters of the width and v in halves of the
\* height: phi = (u - 0.5) * 2 pi and theta = (v - 0.5) * pi are whole quarter
\* turns.
EquirectUVToDirection(u, v) ==
    LET phi == u - 2
        theta == v - 1
    IN  <<CosQ(theta) * SinQ(phi), SinQ(theta), CosQ(theta) * CosQ(phi)>>

\* Mutant: a pixel as bright as the brightest so far replaces it.
BrighterOrEqual(luminance, maxLuminance) == luminance >= maxLuminance

\* "if (luminance > maxLuminance)"
Brighter(luminance, maxLuminance) == luminance > maxLuminance

\* The scan of analyzeHDRIBrightestPoint from pixel i on, rows outermost; best
\* is [max, u, v], replaced only by a strictly brighter pixel.
RECURSIVE ScanFrom(_, _, _)
ScanFrom(img, i, best) ==
    LET w == Cardinality(SampleColumns)
        h == Cardinality(SampleRows)
        x == i % w
        y == i \div w
        l == Luminance(img[<<x, y>>])
    IN  IF i >= w * h THEN best
        ELSE ScanFrom(img, i + 1,
                      IF Brighter(l, best.max) THEN [max |-> l, u |-> x, v |-> h - y]
                      ELSE best)

\* The direction analyzeHDRIBrightestPoint returns for the sampled image: the
\* scan starts from maxLuminance 0 at the centre of the panorama.
BrightestPoint(img) ==
    LET best == ScanFrom(img, 0, [max |-> 0, u |-> 2, v |-> 1])
    IN  EquirectUVToDirection(best.u, best.v)

AnalyzeHDRIBrightestPoint(img) ==
    /\ pixelBuffer' = img
    /\ brightestDirection' = BrightestPoint(img)

\* ------------------------------------------- animation and transforms
AnimationModes == {"turntable", "sine"}

\* Mutant: every enabling call takes a snapshot, running or not.
TakesSnapshotAlways(enabled, running) == enabled

\* "enabled && !this.animationEnabled": the call starts the animation.
TakesSnapshot(enabled, running) == enabled /\ ~running

\* "!enabled && this.animationEnabled": the call stops the animation.
RestoresSnapshot(enabled, running) == ~enabled /\ running

\* What setAnimationEnabled(enabled) does to the container rotation, the
\* snapshot's value and the sine clock.
SnapshotOnEnable(enabled) ==
    /\ savedRotation' =
          IF TakesSnapshot(enabled, animationEnabled) THEN containerRotation
          ELSE IF RestoresSnapshot(enabled, animationEnabled) THEN 0
          ELSE savedRotation
    /\ containerRotation' =
          IF RestoresSnapshot(enabled, animationEnabled) /\ rotationBeforeAnimation # "null"
          THEN savedRotation
          ELSE containerRotation
    /\ sineTime' = IF TakesSnapshot(enabled, animationEnabled) THEN 0 ELSE sineTime
    /\ UNCHANGED animationMode

\* Observer: the rotation the container has when a call starts the animation.
NoteEnable(enabled) ==
    /\ preAnimationRotation' =
          IF enabled /\ ~animationEnabled THEN containerRotation ELSE preAnimationRotation
    /\ lastAnimationCall' = IF enabled THEN "enable" ELSE "disable"
    /\ UNCHANGED lastTransform

\* Mutant: the mode is switched without stopping and restarting.
RestartsNever(wasEnabled) == FALSE

\* "if (wasEnabled)" of setAnimationMode, around the change of mode.
Restarts(wasEnabled) == wasEnabled

\* setAnimationMode(mode): setAnimationEnabled(false) if running, the mode
\* and the sine clock, setAnimationEnabled(true) if it was running.
SetAnimationMode(mode) ==
    LET restarts == Restarts(animationEnabled)
        restored == IF restarts /\ rotationBeforeAnimation # "null"
                    THEN savedRotation ELSE containerRotation
    IN
    /\ animationMode' = mode
    /\ sineTime' = 0
    /\ containerRotation' = restored
    /\ savedRotation' = IF restarts THEN restored ELSE savedRotation
    /\ rotationBeforeAnimation' = IF restarts THEN "saved" ELSE rotationBeforeAnimation
    /\ Quiet
    /\ UNCHANGED <<viewerVars, currentModel, animationEnabled>>

\* The animation branch of animate(): the turntable turns the container about
\* Y, a quarter turn a tick in the model's units; the sine wave advances its
\* clock and places the container at the snapshot plus the wave, a quarter
\* period a tick and a quarter turn of amplitude.
AnimationStep ==
    LET animating == animationEnabled /\ currentModel /\ rotationBeforeAnimation # "null"
    IN
    /\ (animating /\ animationMode = "sine") => sineTime < MaxSineTicks
    /\ sineTime' = IF animating /\ animationMode = "sine" THEN sineTime + 1 ELSE sineTime
    /\ containerRotation' =
          IF animating /\ animationMode = "turntable" THEN (containerRotation + 1) % 4
          ELSE IF animating /\ animationMode = "sine"
               THEN (savedRotation + SinQ(sineTime')) % 4
          ELSE containerRotation
    /\ UNCHANGED <<savedRotation, animationMode>>

\* The arguments the transform sliders give updateModelTransform.
TransformScales == {1, 3}
TransformPositions == {<<1, -1>>}
TransformRotations == {1, 6}

\* Mutant: the rotation is applied on top of the one the container has.
TransformRotationRelative(previous, rotation) == (previous + rotation) % 4

\* rotation.setFromRotationMatrix of the matrix built from the arguments alone.
TransformRotation(previous, rotation) == rotation % 4

\* The transform updateModelTransform(scale, position, rotation) gives the
\* container.
SetTransform(scale, position, rotation) ==
    /\ containerScale' = Quotient(scale, 1)
    /\ containerPosition' = <<position[1], position[2], 0>>
    /\ containerRotation' = TransformRotation(containerRotation, rotation)

\* ------------------------------------------- shader presets, model parts
\* The keys of ViewerConfig.shaderPresets.
ShaderPresets == {"custom", "metallic", "plastic", "glass", "matte", "glossy"}

\* preset.color: no preset of the configuration has the field.
PresetColor(name) == "undefined"

\* mat.map of the material a loaded model brings.
MaterialMaps == {"texture", "null"}

\* "preset.color !== null": the colour override of applyShaderPreset.
OverridesColor(name) == PresetColor(name) # "null"

\* applyShaderPreset(presetName) on the loaded model: the original map is
\* stored on the first application; 'custom' restores it, a colour override
\* removes the map, any other preset puts a stored map back.
ApplyShaderPreset(name) ==
    LET original == IF originalMaterials = "unset" THEN materialMap ELSE originalMaterials
    IN
    /\ currentModel
    /\ currentShaderPreset' = name
    /\ originalMaterials' = original
    /\ materialMap' =
          IF name = "custom" THEN original
          ELSE IF OverridesColor(name) THEN "null"
          ELSE IF original # "null" THEN original
          ELSE materialMap
    /\ samples' = IF PathTracingActive THEN 0 ELSE samples
    /\ Quiet
    /\ UNCHANGED <<ptVars, coordVars, envVars, loadVars, animVars, libVars,
                   hdriRotationTimer, dragging, modelVars, transformVars, hdriVars,
                   containerChildren>>

\* clearModel, the parts: with a model loaded it is detached from the
\* container, the stored materials dropped and the preset reset.
ClearParts ==
    IF currentModel
    THEN /\ containerChildren' = containerChildren \ {modelId}
         /\ originalMaterials' = "unset"
         /\ currentShaderPreset' = "custom"
         /\ materialMap' = "null"
    ELSE UNCHANGED partsVars

\* The success callback, the parts: the model of request id becomes
\* currentModel and processLoadedModel adds it to the container.
AddParts(id, map) ==
    /\ containerChildren' = containerChildren \cup {id}
    /\ materialMap' = map
    /\ UNCHANGED <<originalMaterials, currentShaderPreset>>

\* ------------------------------------- tone mapping, dual-canvas viewer
\* Values of the intensity slider.
Intensities == {1, 2}

\* updateCanvasBackground, run at the end of a handler: tone mapping is on,
\* with the intensity as exposure, when the HDRI is the displayed background.
UpdateCanvasBackground ==
    LET shown == hdriBackgroundVisible' /\ currentHDRI' # NullTexture
    IN  /\ toneMapping' = IF shown THEN "ACESFilmic" ELSE "NoToneMapping"
        /\ toneMappingExposure' = IF shown THEN hdriIntensity' ELSE 1

\* "if (this.hdriBackgroundVisible)" of updateHDRISettings: tone mapping is
\* switched on whenever the flag is set.
SettingsToneMapping ==
    IF hdriBackgroundVisible
    THEN /\ toneMapping' = "ACESFilmic"
         /\ toneMappingExposure' = hdriIntensity'
    ELSE UNCHANGED <<toneMapping, toneMappingExposure>>

\* ------------------------------------------------------ background video
\* updateCanvasBackground of the viewer with background media, run at the end
\* of a handler: the HDRI, a transparent canvas, the video (its texture made
\* once and cached), or a plain background. transparent: #bg-transparent is
\* checked. cached: the video texture the handler left before the call.
CanvasBackground(transparent, cached) ==
    LET shown == hdriBackgroundVisible' /\ currentHDRI' # NullTexture
    IN  /\ toneMapping' = IF shown THEN "ACESFilmic" ELSE "NoToneMapping"
        /\ toneMappingExposure' = IF shown THEN hdriIntensity' ELSE toneMappingExposure
        /\ backgroundVideoTexture' =
              IF ~shown /\ ~transparent /\ backgroundVideo' # "null" THEN TRUE ELSE cached

\* setBackgroundVideo(video): the element is stored, the cached texture of the
\* previous one disposed. paused: the element's state when it is handed over.
SetBackgroundVideo(paused, transparent) ==
    /\ backgroundVideo' = "video"
    /\ videoPaused' = paused
    /\ videoSrc' = "set"
    /\ UNCHANGED <<hdriIntensity, envVars>>
    /\ CanvasBackground(transparent, FALSE)
    /\ Quiet
    /\ UNCHANGED <<ptVars, coordVars, loadVars, animVars, libVars, hdriRotationTimer,
                   dragging, samples>>

\* clearBackgroundImage(): both fields are nulled first, so the test of
\* this.backgroundVideo that guards pause() and the release of src is never
\* true; the cached texture is disposed.
ClearBackgroundImage(transparent) ==
    LET video == "null" IN
    /\ backgroundVideo' = video
    /\ videoPaused' = IF video # "null" THEN TRUE ELSE videoPaused
    /\ videoSrc' = IF video # "null" THEN "" ELSE videoSrc
    /\ UNCHANGED <<hdriIntensity, envVars>>
    /\ CanvasBackground(transparent, FALSE)
    /\ Quiet
    /\ UNCHANGED <<ptVars, coordVars, loadVars, animVars, libVars, hdriRotationTimer,
                   dragging, samples>>

\* ------------------------------------------------------- specifications
\* Observers of a run: they record, next to a handler, what the timing and
\* resync properties are about. They read the program's state and write only
\* lastMutAge, burstResyncs and ptStale.
timeVars == <<lastMutAge, burstResyncs>>
obsVars == <<lastMutAge, burstResyncs, ptStale>>

\* A content mutation made by the user or by the animation. After a pause of
\* a full settle delay it opens a new burst.
NoteMutation ==
    IF PathTracingActive
    THEN /\ lastMutAge' = 0
         /\ burstResyncs' = IF lastMutAge >= interactionDelay THEN 0 ELSE burstResyncs
    ELSE UNCHANGED timeVars

\* The regeneration a rotation input scheduled: part of that input's burst.
NoteFollowUp ==
    /\ lastMutAge' = IF PathTracingActive THEN 0 ELSE lastMutAge
    /\ UNCHANGED burstResyncs

\* setScene or updateEnvironment ran in a settle callback.
NoteResync ==
    /\ burstResyncs' = Min(burstResyncs + 1, 2)
    /\ UNCHANGED lastMutAge

NoteTime ==
    /\ lastMutAge' = Min(interactionDelay, lastMutAge + TimeStep)
    /\ UNCHANGED burstResyncs

\* pathTracer.setScene(scene, camera): the tracer takes the whole scene.
SetSceneStale(stale) == {}
\* pathTracer.updateEnvironment(): the tracer takes scene.environment only.
UpdateEnvironmentStale(stale) == stale \ {"env"}

\* A handler changed part of the scene under a constructed path tracer.
Touch(part) == ptStale' = IF pathTracer THEN ptStale \cup {part} ELSE ptStale
TookScene == ptStale' = SetSceneStale(ptStale)
TookEnvironment == ptStale' = UpdateEnvironmentStale(ptStale)
\* enablePathTracing: setScene ran, threw (the tracer holds no scene), or was
\* not reached.
TookOnEnable ==
    ptStale' = IF enableResult' = "true" THEN SetSceneStale(ptStale)
               ELSE IF enableResult' = "throw" THEN Aspects
               ELSE ptStale

\* A toggle of path tracing starts a new observation: bursts are counted while
\* path tracing stays enabled.
NoteToggle ==
    /\ lastMutAge' = interactionDelay
    /\ burstResyncs' = 0

\* The viewer with every handler of the coordinator, the animation included.
Next ==
    \/ LibraryLoaded /\ UNCHANGED <<obsVars, sceneVars>>
    \/ PathtracerReady /\ UNCHANGED <<obsVars, sceneVars>>
    \/ \E c, s \in BOOLEAN : PathTracingToggleOn(c, s) /\ UNCHANGED <<obsVars, sceneVars>>
    \/ PathTracingToggleOff /\ UNCHANGED <<obsVars, sceneVars>>
    \/ ResetPathTracing /\ UNCHANGED <<obsVars, sceneVars>>
    \/ OrbitStart /\ UNCHANGED <<obsVars, sceneVars>>
    \/ OrbitEnd /\ UNCHANGED <<obsVars, sceneVars>>
    \/ UpdateSunLightPosition /\ UNCHANGED <<obsVars, sceneVars>>
    \/ UpdateModelTransform /\ UNCHANGED <<obsVars, sceneVars>>
    \/ HDRIIntensityInput /\ UNCHANGED <<obsVars, sceneVars>>
    \/ HDRIRotationInput /\ UNCHANGED <<obsVars, sceneVars>>
    \/ SettleSetScene /\ UNCHANGED <<obsVars, sceneVars>>
    \/ SettleUpdateEnvironment /\ UNCHANGED <<obsVars, sceneVars>>
    \/ HDRIRotationCommit /\ UNCHANGED <<obsVars, sceneVars>>
    \/ Tick /\ UNCHANGED <<obsVars, sceneVars>>
    \/ \E id \in 1..MaxLoads : HDRILoaded(id) /\ UNCHANGED <<obsVars, sceneVars>>
    \/ ModelLoaded /\ UNCHANGED <<obsVars, sceneVars>>
    \/ ClearModel /\ UNCHANGED <<obsVars, sceneVars>>
    \/ \E e \in BOOLEAN : SetAnimationEnabled(e) /\ UNCHANGED <<obsVars, sceneVars>>
    \/ \E t \in BOOLEAN : AnimateFrame(t) /\ UNCHANGED <<obsVars, sceneVars>>

Spec == Init /\ [][Next]_vars

\* The coordinator's handlers with the clock of mutations and resyncs.
TimedNext ==
    \/ \E c, s \in BOOLEAN : PathTracingToggleOn(c, s) /\ NoteToggle /\ UNCHANGED <<ptStale, sceneVars>>
    \/ PathTracingToggleOff /\ NoteToggle /\ UNCHANGED <<ptStale, sceneVars>>
    \/ OrbitStart /\ NoteMutation /\ UNCHANGED <<ptStale, sceneVars>>
    \/ OrbitEnd /\ NoteMutation /\ UNCHANGED <<ptStale, sceneVars>>
    \/ UpdateSunLightPosition /\ NoteMutation /\ UNCHANGED <<ptStale, sceneVars>>
    \/ UpdateModelTransform /\ NoteMutation /\ UNCHANGED <<ptStale, sceneVars>>
    \/ HDRIIntensityInput /\ NoteMutation /\ UNCHANGED <<ptStale, sceneVars>>
    \/ HDRIRotationInput /\ NoteMutation /\ UNCHANGED <<ptStale, sceneVars>>
    \/ SettleSetScene /\ NoteResync /\ UNCHANGED <<ptStale, sceneVars>>
    \/ SettleUpdateEnvironment /\ NoteResync /\ UNCHANGED <<ptStale, sceneVars>>
    \/ HDRIRotationCommit /\ NoteFollowUp /\ UNCHANGED <<ptStale, sceneVars>>
    \/ Tick /\ NoteTime /\ UNCHANGED <<ptStale, sceneVars>>
    \/ \E t \in BOOLEAN : AnimateFrame(t) /\ UNCHANGED <<obsVars, sceneVars>>

TimedSpec == Init /\ [][TimedNext]_vars

\* The coordinator's handlers with what the path tracer has and has not been
\* given.
SyncNext ==
    \/ \E c, s \in BOOLEAN : PathTracingToggleOn(c, s) /\ TookOnEnable /\ UNCHANGED <<timeVars, sceneVars>>
    \/ PathTracingToggleOff /\ Touch("env") /\ UNCHANGED <<timeVars, sceneVars>>
    \/ OrbitStart /\ UNCHANGED <<obsVars, sceneVars>>
    \/ OrbitEnd /\ Touch("scene") /\ UNCHANGED <<timeVars, sceneVars>>
    \/ UpdateSunLightPosition /\ Touch("scene") /\ UNCHANGED <<timeVars, sceneVars>>
    \/ UpdateModelTransform /\ Touch("scene") /\ UNCHANGED <<timeVars, sceneVars>>
    \/ HDRIIntensityInput /\ Touch("env") /\ UNCHANGED <<timeVars, sceneVars>>
    \/ HDRIRotationInput /\ Touch("env") /\ UNCHANGED <<timeVars, sceneVars>>
    \/ SettleSetScene /\ TookScene /\ UNCHANGED <<timeVars, sceneVars>>
    \/ SettleUpdateEnvironment /\ TookEnvironment /\ UNCHANGED <<timeVars, sceneVars>>
    \/ HDRIRotationCommit /\ Touch("env") /\ UNCHANGED <<timeVars, sceneVars>>
    \/ Tick /\ UNCHANGED <<obsVars, sceneVars>>
    \/ \E t \in BOOLEAN : AnimateFrame(t) /\ UNCHANGED <<obsVars, sceneVars>>

SyncSpec == Init /\ [][SyncNext]_vars

\* The HDRI loads and the handlers that edit the picture without the
\* interaction block, next to the toggle, two edits and the frame loop.
LoadNext ==
    \/ \E c, s \in BOOLEAN : PathTracingToggleOn(c, s) /\ UNCHANGED <<obsVars, sceneVars>>
    \/ PathTracingToggleOff /\ UNCHANGED <<obsVars, sceneVars>>
    \/ \E n \in HDRIPresets : LoadHDRI(n) /\ UNCHANGED <<obsVars, sceneVars>>
    \/ \E id \in 1..MaxLoads : HDRILoaded(id) /\ UNCHANGED <<obsVars, sceneVars>>
    \/ \E id \in 1..MaxLoads : HDRILoadError(id) /\ UNCHANGED <<obsVars, sceneVars>>
    \/ ShadowQualityChange /\ UNCHANGED <<obsVars, sceneVars>>
    \/ HDRIShowBackground /\ UNCHANGED <<obsVars, sceneVars>>
    \/ ResizeCanvas /\ UNCHANGED <<obsVars, sceneVars>>
    \/ UpdateSunLightPosition /\ UNCHANGED <<obsVars, sceneVars>>
    \/ HDRIRotationInput /\ UNCHANGED <<obsVars, sceneVars>>
    \/ SettleSetScene /\ UNCHANGED <<obsVars, sceneVars>>
    \/ SettleUpdateEnvironment /\ UNCHANGED <<obsVars, sceneVars>>
    \/ HDRIRotationCommit /\ UNCHANGED <<obsVars, sceneVars>>
    \/ Tick /\ UNCHANGED <<obsVars, sceneVars>>
    \/ \E t \in BOOLEAN : AnimateFrame(t) /\ UNCHANGED <<obsVars, sceneVars>>

LoadSpec == Init /\ [][LoadNext]_vars

\* The model container: model loads, transforms and the HDRI load results.
\* What the model-load handlers leave alone.
sceneRest == <<obsVars, analysisVars, animationVars, animObs, rotObs, sunVars, toneVars,
               videoVars>>

SceneNext ==
    \/ \E ext \in Extensions : LoadModel(ext) /\ ClearParts /\ UNCHANGED sceneRest
    \/ \E id \in 1..MaxModelLoads : \E d \in MaxDims : \E map \in MaterialMaps :
          ModelLoadCompleted(id, d) /\ AddParts(id, map) /\ UNCHANGED sceneRest
    \/ \E id \in 1..MaxModelLoads :
          ModelLoadFailed(id) /\ UNCHANGED <<sceneRest, partsVars>>
    \/ RemoveModel /\ ClearParts /\ UNCHANGED sceneRest
    \/ \E name \in ShaderPresets : ApplyShaderPreset(name) /\ UNCHANGED sceneRest
    \/ \E id \in 1..MaxLoads : HDRILoaded(id) /\ UNCHANGED <<obsVars, sceneVars>>
    \/ \E id \in 1..MaxLoads : HDRILoadError(id) /\ UNCHANGED <<obsVars, sceneVars>>

SceneSpec == Init /\ [][SceneNext]_vars

\* The HDRI controls: rotation and intensity sliders, the loads, the toggle
\* and the timers they arm.
restVars == <<modelVars, transformVars, sunVars>>

RotationNext ==
    \/ \E r \in Rotations : RotationInput(r) /\ NoteRotationInput /\ UNCHANGED <<obsVars, asideVars, restVars>>
    \/ RotationCommit /\ NoteRotationCommit /\ UNCHANGED <<obsVars, asideVars, restVars>>
    \/ IntensityInput /\ UNCHANGED <<obsVars, asideVars, rotObs, restVars>>
    \/ \E n \in HDRIPresets : LoadHDRI(n) /\ UNCHANGED <<obsVars, sceneVars>>
    \/ \E id \in 1..MaxLoads : PanoramaLoaded(id) /\ UNCHANGED <<obsVars, asideVars, rotObs, restVars>>
    \/ \E c, s \in BOOLEAN : PathTracingToggleOn(c, s) /\ UNCHANGED <<obsVars, sceneVars>>
    \/ PathTracingToggleOff /\ UNCHANGED <<obsVars, sceneVars>>
    \/ SettleUpdateEnvironment /\ UNCHANGED <<obsVars, sceneVars>>
    \/ Tick /\ NoteRotationTime /\ UNCHANGED <<obsVars, asideVars, hdriVars, restVars>>

RotationSpec == Init /\ [][RotationNext]_vars

\* The rotation-coupled viewer: its updateHDRISettings and its load callback
\* end with updateSunLightPosition.
coupledRest == <<modelVars, transformVars>>

CoupledNext ==
    \/ \E r \in Rotations :
          RotationInput(r) /\ UpdateSunLight /\ NoteRotationInput
             /\ UNCHANGED <<obsVars, asideVars, coupledRest>>
    \/ RotationCommit /\ UpdateSunLight /\ NoteRotationCommit
          /\ UNCHANGED <<obsVars, asideVars, coupledRest>>
    \/ IntensityInput /\ UpdateSunLight /\ UNCHANGED <<obsVars, asideVars, rotObs, coupledRest>>
    \/ \E n \in HDRIPresets : LoadHDRI(n) /\ UNCHANGED <<obsVars, sceneVars>>
    \/ \E id \in 1..MaxLoads :
          PanoramaLoaded(id) /\ UpdateSunLight /\ UNCHANGED <<obsVars, asideVars, rotObs, coupledRest>>
    \/ \E id \in 1..MaxLoads : HDRILoadError(id) /\ UNCHANGED <<obsVars, sceneVars>>
    \/ Tick /\ NoteRotationTime /\ UNCHANGED <<obsVars, asideVars, hdriVars, restVars>>
    \/ \E t \in BOOLEAN : AnimateFrame(t) /\ UNCHANGED <<obsVars, sceneVars>>

CoupledSpec == Init /\ [][CoupledNext]_vars

\* The brightest-point analysis on every sampled image.
AnalyzeNext ==
    \E img \in Images :
       AnalyzeHDRIBrightestPoint(img)
          /\ UNCHANGED <<viewerVars, animVars, frame, enableResult, obsVars,
                         modelVars, transformVars, hdriVars, rotObs, sunVars,
                         animationVars, animObs, partsVars, toneVars, videoVars>>

AnalyzeSpec == Init /\ [][AnalyzeNext]_vars

\* Animation and transforms of the model container.
animationRest == <<obsVars, modelVars, hdriVars, rotObs, sunVars, analysisVars, partsVars,
                   toneVars, videoVars>>

EnableStep(enabled) ==
    /\ SetAnimationEnabled(enabled)
    /\ SnapshotOnEnable(enabled)
    /\ NoteEnable(enabled)
    /\ UNCHANGED <<animationRest, containerScale, containerPosition>>

\* Observer: a restart within setAnimationMode enables from the restored pose.
NoteMode ==
    /\ preAnimationRotation' =
          IF animationEnabled THEN containerRotation' ELSE preAnimationRotation
    /\ lastAnimationCall' = "mode"
    /\ UNCHANGED lastTransform

ModeStep(mode) ==
    /\ SetAnimationMode(mode)
    /\ NoteMode
    /\ UNCHANGED <<animationRest, containerScale, containerPosition>>

TransformStep(scale, position, rotation) ==
    /\ UpdateModelTransform
    /\ SetTransform(scale, position, rotation)
    /\ lastAnimationCall' = "transform"
    /\ lastTransform' = <<scale, position, rotation>>
    /\ UNCHANGED <<animationRest, animationVars, preAnimationRotation>>

FrameStep(sampleThrows) ==
    /\ AnimateFrame(sampleThrows)
    /\ AnimationStep
    /\ lastAnimationCall' = "frame"
    /\ UNCHANGED <<animationRest, containerScale, containerPosition,
                   preAnimationRotation, lastTransform>>

\* Observer of a step of a model load, which leaves the animation alone.
NoteLoad ==
    /\ lastAnimationCall' = "load"
    /\ UNCHANGED <<obsVars, analysisVars, animationVars, preAnimationRotation,
                   lastTransform, rotObs, sunVars, partsVars, toneVars, videoVars>>

AnimationNext ==
    \/ LoadModel("glb") /\ NoteLoad
    \/ \E id \in 1..MaxModelLoads : ModelLoadCompleted(id, 1) /\ NoteLoad
    \/ \E e \in BOOLEAN : EnableStep(e)
    \/ \E m \in AnimationModes : ModeStep(m)
    \/ \E sc \in TransformScales : \E p \in TransformPositions :
          \E r \in TransformRotations : TransformStep(sc, p, r)
    \/ FrameStep(FALSE)

AnimationSpec == Init /\ [][AnimationNext]_vars

\* The dual-canvas viewer: background toggle, intensity slider, HDRI loads.
backgroundRest == <<obsVars, modelVars, transformVars, rotObs, analysisVars,
                    animationVars, animObs, partsVars, videoVars>>

BackgroundNext ==
    \/ HDRIShowBackground /\ UNCHANGED hdriIntensity /\ UpdateCanvasBackground
          /\ UNCHANGED <<hdriVars, sunVars, backgroundRest>>
    \/ \E v \in Intensities :
          IntensityInput /\ hdriIntensity' = v /\ SettingsToneMapping /\ UpdateSunLight
             /\ UNCHANGED backgroundRest
    \/ \E n \in HDRIPresets : LoadHDRI(n) /\ UNCHANGED <<obsVars, sceneVars>>
    \/ \E id \in 1..MaxLoads :
          PanoramaLoaded(id) /\ UNCHANGED hdriIntensity /\ UpdateCanvasBackground
             /\ UpdateSunLight /\ UNCHANGED backgroundRest

BackgroundSpec == Init /\ [][BackgroundNext]_vars

\* The background media of the viewer, next to the HDRI background.
videoRest == <<obsVars, modelVars, transformVars, hdriVars, rotObs, sunVars,
               analysisVars, animationVars, animObs, partsVars>>

VideoNext ==
    \/ \E paused, transparent \in BOOLEAN :
          SetBackgroundVideo(paused, transparent) /\ UNCHANGED videoRest
    \/ \E transparent \in BOOLEAN :
          ClearBackgroundImage(transparent) /\ UNCHANGED videoRest
    \/ \E transparent \in BOOLEAN :
          HDRIShowBackground /\ UNCHANGED <<hdriIntensity, backgroundVideo>>
             /\ CanvasBackground(transparent, backgroundVideoTexture)
             /\ UNCHANGED <<videoPaused, videoSrc, videoRest>>
    \/ \E n \in HDRIPresets : LoadHDRI(n) /\ UNCHANGED <<obsVars, sceneVars>>
    \/ \E id \in 1..MaxLoads : HDRILoaded(id) /\ UNCHANGED <<obsVars, sceneVars>>

VideoSpec == Init /\ [][VideoNext]_vars

\* ------------------------------------------------------------ properties
\* The settle timers pending: every timer but the rotation debounce.
SettleTimers == {i \in DOMAIN timers : timers[i].cb # "regenerate"}

\* C1: a render tick draws a path-traced sample (or attempts one) only when
\* path tracing is enabled, a path tracer exists and isInteracting is false;
\* in every other state the tick draws a rasterized frame.
C1_RenderCondition ==
    /\ frame \in {"pathtraced", "fallback"}
          => pathTracingEnabled /\ pathTracer /\ ~isInteracting
    /\ frame # "none" /\ ~(pathTracingEnabled /\ pathTracer /\ ~isInteracting)
          => frame = "raster"

C1_Witness == frame = "pathtraced" /\ samples > 0

\* C2: with path tracing enabled, the coordinator is Interacting for as long
\* as less than the settle delay has passed since the most recent content
\* mutation.
C2_InteractingUntilSettled ==
    PathTracingActive /\ lastMutAge < interactionDelay => isInteracting

\* C3: when the settle timer armed last fires with path tracing enabled, the
\* coordinator stops interacting and the path tracer has been given every
\* change made since its previous resync.
C3_SettleResyncsEverything ==
    [][(SettleSetScene \/ SettleUpdateEnvironment)
          /\ pathTracingEnabled
          /\ timers[NextExpired(timers)].ref = "interactionTimeout"
       => ~isInteracting' /\ ptStale' = {}]_vars

\* C4: with path tracing enabled, a burst of content mutations, each within
\* the settle window of the one before, causes one path-tracer resync and no
\* more; the regeneration a rotation input schedules belongs to its burst.
C4_OneResyncPerBurst == PathTracingActive => burstResyncs <= 1

\* C5: at most one interaction settle timer is pending at any time.
C5_OneSettleTimer == Cardinality(SettleTimers) <= 1

\* C6: while path tracing is enabled, every operation that changes the
\* rendered image sets isInteracting and leaves a settle timer armed for the
\* full delay: sun and HDRI edits, a shadow-resolution change, an HDRI load,
\* the background-visibility toggle and a canvas resize.
C6_EveryChangeTriggersInteraction ==
    [][PathTracingActive
          /\ \/ UpdateSunLightPosition
             \/ HDRIRotationInput
             \/ HDRIRotationCommit
             \/ ShadowQualityChange
             \/ HDRIShowBackground
             \/ ResizeCanvas
             \/ \E id \in 1..MaxLoads : HDRILoaded(id)
       => /\ isInteracting'
          /\ \E i \in DOMAIN timers' : /\ timers'[i].ref = "interactionTimeout"
                                       /\ timers'[i].remaining = interactionDelay]_vars

\* C7: disablePathTracing leaves the coordinator Rasterized, with the samples
\* accumulated so far discarded.
C7_DisableDiscardsSamples ==
    [][PathTracingToggleOff => ~pathTracingEnabled' /\ samples' = 0]_vars

\* C8: when the library is missing, WebGL 2 is unavailable or the path
\* tracer's constructor throws, enablePathTracing returns false and
\* pathTracingEnabled stays false; the flag rises only in a call that returns
\* true, and while it is false every render tick draws a rasterized frame.
C8_RejectedEnable ==
    [][/\ \A c, s \in BOOLEAN :
             PathTracingToggleOn(c, s) /\ (isPathtracerLoaded \/ WebGLPathTracer)
                /\ EnableOutcome(c, s) \in Rejected
             => enableResult' = "false" /\ ~pathTracingEnabled /\ ~pathTracingEnabled'
       /\ enableResult' = "false" => ~pathTracingEnabled'
       /\ ~pathTracingEnabled /\ pathTracingEnabled' => enableResult' = "true"
       /\ ~pathTracingEnabled' /\ frame' # "none" => frame' = "raster"]_vars

C8_Witness == enableResult = "false" /\ ~pathTracingEnabled /\ ~toggleChecked

\* C9: whenever the path-tracing flag or its toggle is on and the coordinator
\* is not interacting, a frame that is drawn comes from the path tracer.
C9_NoSilentFallback ==
    (pathTracingEnabled \/ toggleChecked) /\ ~isInteracting /\ frame # "none"
       => frame = "pathtraced"

\* C10: the completion of an HDRI load that is older than one already
\* applied changes neither the stored panorama, nor the environment map, nor
\* the sun direction.
C10_StaleLoadIsNoOp ==
    [][\A id \in 1..MaxLoads :
          HDRILoaded(id) /\ id < hdriNewest
          => UNCHANGED <<originalHDRITexture, currentHDRI, sceneEnvironment,
                         sunDirection>>]_vars

\* C11: a load that fails (an unsupported extension, a rejected .gltf file, a
\* loader's error callback, a panorama's error callback) leaves the model and
\* the environment that were loaded before it in place.
C11_FailedLoadKeepsPrior ==
    [][/\ \A ext \in Extensions :
             LoadModel(ext) /\ ~ReachesLoader(ext)
             => UNCHANGED <<currentModel, modelId>>
       /\ \A id \in 1..MaxModelLoads :
             ModelLoadFailed(id)
             => currentModel' = (modelReplaced[id] # 0) /\ modelId' = modelReplaced[id]
       /\ \A id \in 1..MaxLoads :
             HDRILoadError(id) => UNCHANGED <<envVars, currentModel, modelId>>]_vars

\* The rotation debounce timers pending.
RegenerateTimers == {i \in DOMAIN timers : timers[i].cb = "regenerate"}

\* C12: in a burst of rotation-slider inputs every input applies the live
\* rotation at once; one debounce timer is pending from an input until its
\* regeneration, due hdriRotationDebounce ms after the last input; the
\* regeneration runs at that time, once per burst, with the last input's value.
C12_RotationDebounce ==
    [][/\ \A r \in Rotations :
             RotationInput(r) => hdriRotation' = r /\ environmentRotation' = r
       /\ hdriRotation' # hdriRotation => \E r \in Rotations : RotationInput(r)
       /\ rotPending' =>
             /\ Cardinality(RegenerateTimers') = 1
             /\ \A i \in RegenerateTimers' :
                   timers'[i].remaining = hdriRotationDebounce - rotInputAge'
       /\ ~rotPending' => RegenerateTimers' = {}
       /\ RotationCommit =>
             /\ rotInputAge = hdriRotationDebounce
             /\ environmentRotation' = hdriRotation
             /\ originalHDRITexture # NullTexture => regens' = 1
       /\ regens' <= 1]_vars

C12_Witness == regens = 1 /\ ~rotPending /\ hdriRotation # 0

\* C13: updateHDRISettings sets the live rotation to hdriRotation in every
\* call; with forceRegenerate false (a slider input) it leaves currentHDRI and
\* scene.environment as they are; with forceRegenerate true (the debounce
\* callback) it generates a new map when a panorama is stored and only then.
C13_RegenerateOnlyWhenForced ==
    [][/\ IntensityInput \/ (\E r \in Rotations : RotationInput(r))
          => /\ environmentRotation' = hdriRotation'
             /\ UNCHANGED <<currentHDRI, sceneEnvironment, currentMap, mapsMade, liveMaps>>
       /\ RotationCommit
          => /\ environmentRotation' = hdriRotation'
             /\ IF originalHDRITexture # NullTexture
                THEN /\ currentMap' = mapsMade + 1
                     /\ currentHDRI' = FromEquirectangular(originalHDRITexture)
                     /\ sceneEnvironment' = currentHDRI'
                ELSE UNCHANGED <<currentHDRI, sceneEnvironment, currentMap, mapsMade>>]_vars

C13_Witness == currentMap >= 2 /\ ~rotPending /\ regens = 1 /\ environmentRotation = 1

\* C20: at most one generated environment map and one stored panorama are
\* undisposed at any time, and they are the ones the viewer holds.
C20_OneLiveMapAndSource ==
    /\ Cardinality(liveMaps) <= 1
    /\ Cardinality(liveSources) <= 1
    /\ liveMaps = IF currentMap = 0 THEN {} ELSE {currentMap}
    /\ liveSources = IF originalHDRITexture = NullTexture THEN {}
                     ELSE {originalHDRITexture.src}

C20_Witness == currentMap >= 2 /\ hdriNewest = 2 /\ Cardinality(liveSources) = 1

\* C14: in the rotation-coupled viewer, once an HDRI has loaded, the sun light
\* stands at the loaded preset's direction turned about Y by hdriRotation and
\* scaled by sunDistance, aimed at the origin, in every state a render tick
\* can read.
C14_SunFollowsRotation ==
    hdriNewest > 0 =>
       /\ sunLightPosition =
             MultiplyScalar(ApplyAxisAngleY(CalibratedDirection(sunDirection),
                                            hdriRotation), sunDistance)
       /\ sunLightTarget = <<0, 0, 0>>

C14_Witness ==
    /\ frame = "raster"
    /\ hdriRotation = 1
    /\ sunDirection = "sunset"
    /\ sunLightPosition = <<100, 0, -60>>

\* C15: analysed on a panorama whose every sample is zero, the brightest
\* point is the default top-down direction (0, 1, 0).
C15_ZeroPanoramaTopDown ==
    (brightestDirection # <<>> /\ \A p \in SamplePixels : pixelBuffer[p] = <<0, 0, 0>>)
       => brightestDirection = <<0, 1, 0>>

\* C16: a model whose bounding box has zero extent is not auto-scaled: the
\* loaded model leaves the container scale at its previous value, which is
\* finite.
C16_ZeroExtentKeepsScale ==
    [][\A id \in 1..MaxModelLoads :
          (id \in modelInFlight /\ modelId' = id /\ containerScale' # containerScale)
             => IsFinite(containerScale')]_vars

\* C17: a call that stops the animation leaves the container at the rotation
\* it had when the animation was enabled, whatever ran in between; an enabling
\* call made while the animation runs changes neither the snapshot nor the
\* rotation nor the sine clock.
C17_DisableRestoresSnapshot ==
    [][/\ (animationEnabled /\ ~animationEnabled')
             => containerRotation' = preAnimationRotation
       /\ (animationEnabled /\ lastAnimationCall' = "enable")
             => UNCHANGED <<savedRotation, rotationBeforeAnimation, containerRotation,
                            sineTime, animationEnabled>>]_vars

C17_Witness ==
    /\ lastAnimationCall = "disable"
    /\ ~animationEnabled
    /\ animationMode = "sine"
    /\ sineTime = 1
    /\ containerRotation = 2
    /\ preAnimationRotation = 2

\* C18: setAnimationMode called while the animation runs leaves it enabled in
\* the new mode, the sine clock at 0, the container back at its pre-animation
\* rotation and that rotation stored as the snapshot.
C18_ModeSwitchRestarts ==
    [][(animationEnabled /\ lastAnimationCall' = "mode")
          => /\ animationEnabled'
             /\ \A m \in AnimationModes : ModeStep(m) => animationMode' = m
             /\ sineTime' = 0
             /\ containerRotation' = preAnimationRotation
             /\ savedRotation' = preAnimationRotation
             /\ rotationBeforeAnimation' = "saved"]_vars

C18_Witness ==
    /\ lastAnimationCall = "mode"
    /\ animationEnabled
    /\ animationMode = "turntable"
    /\ sineTime = 0
    /\ containerRotation = 2
    /\ savedRotation = 2
    /\ currentModel

\* C19: after updateModelTransform(scale, position, rotation) the container's
\* scale, position and rotation are functions of the arguments alone, so the
\* previous transform, animation ticks and repetitions leave no trace.
C19_TransformFromArguments ==
    lastAnimationCall = "transform" =>
       /\ containerScale = <<lastTransform[1], 1>>
       /\ containerPosition = <<lastTransform[2][1], lastTransform[2][2], 0>>
       /\ containerRotation = lastTransform[3] % 4

C19_Witness ==
    /\ lastAnimationCall = "transform"
    /\ lastTransform = <<3, <<1, -1>>, 6>>
    /\ animationEnabled
    /\ animationMode = "turntable"
    /\ currentModel
    /\ savedRotation = 1
    /\ containerRotation = 2
    /\ containerScale = <<3, 1>>
    /\ containerPosition = <<1, -1, 0>>

C22_RotationModuloFullTurn ==
    \A a, b \in Rotations :
       (hdriRotation = a /\ a % 4 = b % 4)
          => ShadingRotation(environmentRotation) = ShadingRotation(b)

C22_Witness ==
    /\ hdriRotation = 4
    /\ environmentRotation = 4
    /\ rotInputAge = 0
    /\ currentMap >= 1

\* C23: a preset other than 'custom' leaves the texture map of a textured
\* material in place.
C23_PresetKeepsTextureMap ==
    [][\A name \in ShaderPresets \ {"custom"} :
          (materialMap = "texture" /\ ApplyShaderPreset(name))
             => materialMap' = "texture"]_vars

\* C24: the model container holds at most one model, and it is currentModel.
C24_ContainerHoldsCurrentModel ==
    /\ Cardinality(containerChildren) <= 1
    /\ containerChildren = IF currentModel THEN {modelId} ELSE {}

\* C25: once a panorama is stored, scene.environment is the source panorama
\* while path tracing is enabled and the current prefiltered map while it is
\* not.
C25_EnvironmentMatchesMode ==
    originalHDRITexture # NullTexture =>
       sceneEnvironment = IF pathTracingEnabled THEN originalHDRITexture ELSE currentHDRI

\* C26: with path tracing enabled and no drag in progress, the coordinator is
\* interacting only while a settle timer is pending, so that the timer's
\* firing returns it to path-traced rendering.
C26_InteractingHasSettleTimer ==
    (pathTracingEnabled /\ pathTracer /\ isInteracting /\ ~dragging)
       => \E i \in 1..Len(timers) : timers[i].ref = "interactionTimeout"

\* C27: while a drag goes on with path tracing enabled, no step ends the
\* interaction.
C27_DragKeepsInteracting ==
    [][(dragging /\ dragging' /\ PathTracingActive /\ pathTracingEnabled' /\ isInteracting)
          => isInteracting']_vars

\* C28: a model loaded or cleared under an active path tracer either resets
\* the tracer at once or leaves the coordinator interacting, so that the
\* settle callback gives the tracer the new scene before the next sample.
C28_ModelChangeResyncs ==
    [][(PathTracingActive /\ (ModelLoaded \/ ClearModel))
          => (isInteracting' \/ samples' = 0)]_vars

\* C29: in the dual-canvas viewer the renderer tone-maps with ACES filmic and
\* the intensity as exposure exactly when the HDRI is the displayed
\* background; otherwise tone mapping is off and the exposure is 1.
C29_ToneMappingFollowsBackground ==
    IF hdriBackgroundVisible /\ currentHDRI # NullTexture
    THEN toneMapping = "ACESFilmic" /\ toneMappingExposure = hdriIntensity
    ELSE toneMapping = "NoToneMapping" /\ toneMappingExposure = 1

\* C30: clearBackgroundImage called while a background video is set leaves
\* that video paused, its src cleared and the cached video texture disposed.
C30_ClearedVideoStopped ==
    [][(backgroundVideo = "video" /\ \E t \in BOOLEAN : ClearBackgroundImage(t))
          => (videoPaused' /\ videoSrc' = "" /\ ~backgroundVideoTexture')]_vars

====
